---- MODULE Spec2Model ----
(***************************************************************************)
(* The master side of the MaxScale binlog router (blr_master.c): the      *)
(* serialization gate of blr_master_response, the master state machine    *)
(* started by blr_start_master, binlog ingest and the fan-out of events   *)
(* to the registered slaves.                                               *)
(*                                                                         *)
(* Threads call blr_master_response concurrently.  The router spinlock is *)
(* modelled explicitly: one step acquires it, the next step runs the      *)
(* critical section and releases it.  Everything a thread does between    *)
(* two lock operations on data only the thread inside the gate touches    *)
(* is one step.                                                            *)
(*                                                                         *)
(* A buffer (GWBUF chain) is a sequence of segments.  In this model every *)
(* segment carries one whole MySQL packet, described by an index into the *)
(* packet table Pkt; a segment also carries the number of the delivery    *)
(* that brought it (id, given under the gate's lock) and its place in the *)
(* delivered chain (k).                                                    *)
(***************************************************************************)
EXTENDS Integers, Sequences, FiniteSets, TLC

\* ---------------------------------------------------------------- bounds
NThreads == 2
MaxDeliveries == 11
MaxEvents == 3
MaxSeg == 2
MaxErr == 1
MaxChains == 1
MaxQueue == 2
MaxSlaves == 2
MaxPkts == 2
MaxCalls == 4

Threads == 1..NThreads
NoThread == NThreads + 1

\* ------------------------------------------------------ program constants
\* Master state machine states (blr.h; the order is the one of spec 4.4).
BLRM_UNCONNECTED == 0
BLRM_AUTHENTICATED == 1
BLRM_TIMESTAMP == 2
BLRM_SERVERID == 3
BLRM_HBPERIOD == 4
BLRM_CHKSUM1 == 5
BLRM_CHKSUM2 == 6
BLRM_GTIDMODE == 7
BLRM_MUUID == 8
BLRM_SUUID == 9
BLRM_LATIN1 == 10
BLRM_REGISTER == 11
BLRM_BINLOGDUMP == 12
BLRM_MAXSTATE == 12

\* MySQL 5.6 event types and flags used by the ingest code.
QUERY_EVENT == 2
ROTATE_EVENT == 4
FORMAT_DESCRIPTION_EVENT == 15
HEARTBEAT_EVENT == 27
LOG_EVENT_ARTIFICIAL_F == 32
\* The first payload byte of a MySQL error packet.
MYSQL_ERR_MARKER == 255

\* ---------------------------------------------------------- packet table
\* plen: bytes of the whole MySQL packet (payload length + 4); ok: byte 4;
\* etype, flags, size (event_size), next (next_pos): the event header;
\* rname, rpos: file name and position carried by a rotate event.
OkResponse == "OkResponse"
ErrResponse == "ErrResponse"
EventA == "EventA"
EventB == "EventB"
EventRotate == "EventRotate"
ErrEvent == "ErrEvent"

Pkt(i) ==
    CASE i = OkResponse  -> [plen |-> 11, ok |-> 0, etype |-> 0, flags |-> 0,
                             size |-> 0, next |-> 0, rname |-> "", rpos |-> 0]
      [] i = ErrResponse -> [plen |-> 30, ok |-> MYSQL_ERR_MARKER, etype |-> 0, flags |-> 0,
                             size |-> 0, next |-> 0, rname |-> "", rpos |-> 0]
      [] i = EventA      -> [plen |-> 55, ok |-> 0, etype |-> QUERY_EVENT, flags |-> 0,
                             size |-> 50, next |-> 1050, rname |-> "", rpos |-> 0]
      [] i = EventB      -> [plen |-> 35, ok |-> 0, etype |-> QUERY_EVENT, flags |-> 0,
                             size |-> 30, next |-> 1080, rname |-> "", rpos |-> 0]
      [] i = EventRotate -> [plen |-> 52, ok |-> 0, etype |-> ROTATE_EVENT, flags |-> 0,
                             size |-> 47, next |-> 1097,
                             rname |-> "mysql-bin.000007", rpos |-> 4]
      [] i = ErrEvent    -> [plen |-> 30, ok |-> MYSQL_ERR_MARKER, etype |-> 0, flags |-> 0,
                             size |-> 0, next |-> 0, rname |-> "", rpos |-> 0]

\* What the master sends before and after it has been sent COM_BINLOG_DUMP.
Responses == {OkResponse, ErrResponse}
Events == {EventA, EventB, EventRotate, ErrEvent}

\* Positions and sequence ids a slave may register with.
SlavePositions == {999, 1000}
SlaveSeqnos == {0, 255}

VARIABLES
    master_state,   \* router->master_state
    active_logs,    \* router->active_logs
    queue,          \* router->queue: the chain of queued segments
    lock,           \* router->lock: the holder, or NoThread
    residual,       \* router->residual
    saved,          \* router->saved_master
    slaves,         \* router->slaves
    binlog_name,    \* router->binlog_name
    binlog_position,\* router->binlog_position
    stats,          \* router->stats
    pc,             \* each thread's place in blr_master_response
    buf,            \* each thread's buf / pkt chain
    spc,            \* the place of the thread running blr_start_master
    written,        \* history: packets written to the master, in order
    nextId,         \* history: number of deliveries that passed the gate's lock
    early,          \* history: a delivery was made before blr_start_master returned
    budget,         \* environment: deliveries the I/O layer will still make
    nErr,           \* history: number of delivered packets carrying the error marker
    nChains,        \* history: number of deliveries that were chains of several segments
    lastProc,       \* history: the segment last handed to the switch of the state machine
    sent,           \* history: per slave, the packets written to it
    fileLog,        \* the local binlog file component: appended events
    flushed,        \* the local binlog file component: appends covered by a flush
    cval,           \* codec: the value handed to encode_value
    cbits,          \* codec: the width in bits
    cdata,          \* codec: the bytes encode_value wrote
    cout,           \* codec: what extract_field returned
    cpc,            \* codec: the place of the caller
    wire,           \* byte stream: the master's bytes not yet delivered
    stream,         \* byte stream: the packets the master sends, in order
    extracted,      \* history: the messages handed to blr_extract_header
    rotated         \* byte stream: the calls of blr_file_rotate, in order

vars == <<master_state, active_logs, queue, lock, residual, saved, slaves,
          binlog_name, binlog_position, stats, pc, buf, spc, written, nextId,
          early, budget, nErr, nChains, lastProc, sent, fileLog, flushed,
          cval, cbits, cdata, cout, cpc, wire, stream, extracted, rotated>>

codecVars == <<cval, cbits, cdata, cout, cpc>>
streamVars == <<wire, stream, extracted, rotated>>
auxVars == <<codecVars, streamVars>>

routerVars == <<residual, slaves, binlog_name, binlog_position, stats, sent,
                fileLog, flushed>>

\* ------------------------------------------------------------ buffers
NULLBUF == [id |-> 0, k |-> 0, p |-> ""]

\* MYSQL_RESPONSE_ERR(buf): byte 4 of the first segment is the error marker.
MYSQL_RESPONSE_ERR(b) == b # <<>> /\ Pkt(b[1].p).ok = MYSQL_ERR_MARKER

\* gwbuf_length: the bytes of a whole chain.
RECURSIVE gwbuf_length(_)
gwbuf_length(b) == IF b = <<>> THEN 0 ELSE Pkt(b[1].p).plen + gwbuf_length(Tail(b))

\* gwbuf_append(head, tail): tail is linked after the last segment of head.
gwbuf_append(head, tail) == head \o tail

\* The chain a caller delivers: n segments holding the packets ps[1..n].
NewChain(ps) == [k \in 1..Len(ps) |-> [id |-> 0, k |-> k, p |-> ps[k]]]

\* The delivered chain, numbered with the delivery's place in the gate order.
Stamp(b, id) == [k \in 1..Len(b) |-> [b[k] EXCEPT !.id = id]]

\* --------------------------------------------------------- packet codec
COM_QUERY == 3
COM_REGISTER_SLAVE == 21
COM_BINLOG_DUMP == 18

\* The bytes of a binlog file name field.  blr_make_binlog_dump allocates
\* 0x1b + 4 bytes and stores BINLOG_FNAMELEN bytes at data[15] (lines 335-348),
\* and blr_rotate_event takes BINLOG_FNAMELEN bytes of a rotate event as the
\* name (line 606): 0x1b = 1 + 4 + 2 + 4 + 16.
BINLOG_FNAMELEN == 16

RouterUuid == "<uuid>"

blr_make_query(statement) ==
    [cmd |-> COM_QUERY, text |-> statement, pos |-> 0, name |-> ""]

blr_make_registration ==
    [cmd |-> COM_REGISTER_SLAVE, text |-> "", pos |-> 0, name |-> ""]

blr_make_binlog_dump ==
    [cmd |-> COM_BINLOG_DUMP, text |-> "", pos |-> binlog_position, name |-> binlog_name]

\* ------------------------------------------------- encode_value, extract_field
\* A C unsigned int (32 bits) is kept as its two 16-bit halves, so that all 32
\* bits are there and no operation leaves the width.
U32(hi, lo) == [hi |-> hi, lo |-> lo]

\* The number as an unsigned int.
ToU32(n) == U32(n \div 65536, n % 65536)

\* value >>= 8
Shr8(v) == U32(v.hi \div 256, (v.lo \div 256) + (v.hi % 256) * 256)

\* The value as a number, for values below 2^31.
Val(v) == v.hi * 65536 + v.lo

\* Mutant of encode_value (C14): the most significant byte is written first.
RECURSIVE encode_value_msb(_, _)
encode_value_msb(value, len) ==
    IF len > 0 THEN encode_value_msb(Shr8(value), len - 8) \o <<value.lo % 256>> ELSE <<>>

\* Lines 363-368: one byte, value & 0xff, for every 8 bits of len.
RECURSIVE encode_value(_, _)
encode_value(value, len) ==
    IF len > 0 THEN <<value.lo % 256>> \o encode_value(Shr8(value), len - 8) ELSE <<>>

\* Lines 580-585.  rval |= byte << shift: the bits of rval at and above shift
\* are still zero, so the or is an addition into the half the shift falls in.
\* (For shift = 24 and a byte above 127 the shift leaves the range of int; every
\* build yields the bit pattern.)
RECURSIVE extract_loop(_, _, _, _)
extract_loop(src, bits, rval, shift) ==
    IF bits > 0
    THEN extract_loop(Tail(src), bits - 8,
                      IF shift < 16 THEN U32(rval.hi, rval.lo + src[1] * 2^shift)
                      ELSE U32(rval.hi + src[1] * 2^(shift - 16), rval.lo),
                      shift + 8)
    ELSE rval

extract_field(src, bits) == extract_loop(src, bits, U32(0, 0), 0)

\* A caller encodes cval into cbits bits and extracts the field again.
CodecEncode ==
    /\ cpc = "encode"
    /\ cdata' = encode_value(cval, cbits)
    /\ cpc' = "extract"
    /\ UNCHANGED <<cval, cbits, cout>>

CodecExtract ==
    /\ cpc = "extract"
    /\ cout' = extract_field(cdata, cbits)
    /\ cpc' = "done"
    /\ UNCHANGED <<cval, cbits, cdata>>

\* ------------------------------------------------ the builders' buffers
\* What a builder does to its buffer: alloc is the size handed to gwbuf_alloc,
\* lenfield the payload length read back from the three bytes encode_value
\* wrote at data[0], writes the offsets into data[] the builder stores to.

\* blr_make_query, lines 278-286, for a statement of n characters.
QueryLayout(n) ==
    [alloc    |-> n + 5,
     lenfield |-> Val(extract_field(encode_value(ToU32(n + 1), 24), 24)),
     writes   |-> (0..2) \cup {3} \cup {4} \cup (5..(5 + n - 1))]

\* blr_make_registration, lines 303-317.
RegistrationLayout ==
    [alloc    |-> 18 + 4,
     lenfield |-> Val(extract_field(encode_value(ToU32(18), 24), 24)),
     writes   |-> (0..2) \cup {3} \cup {4} \cup (5..8) \cup {9, 10, 11} \cup (12..13)
                  \cup (14..17) \cup (18..21)]

\* Mutant of BinlogDumpLayout (C24): the buffer is allocated without the 4
\* bytes of the packet header.
BinlogDumpLayoutNoHeader ==
    [alloc    |-> 27,
     lenfield |-> Val(extract_field(encode_value(ToU32(27), 24), 24)),
     writes   |-> (0..2) \cup {3} \cup {4} \cup (5..8) \cup (9..10) \cup (11..14)
                  \cup (15..(15 + BINLOG_FNAMELEN - 1))]

\* blr_make_binlog_dump, lines 335-348: strncpy stores exactly BINLOG_FNAMELEN
\* bytes at data[15], the name and the NULs that pad it.
BinlogDumpLayout ==
    [alloc    |-> 27 + 4,
     lenfield |-> Val(extract_field(encode_value(ToU32(27), 24), 24)),
     writes   |-> (0..2) \cup {3} \cup {4} \cup (5..8) \cup (9..10) \cup (11..14)
                  \cup (15..(15 + BINLOG_FNAMELEN - 1))]

\* The buffer of a packet written to the master.
LayoutOf(pkt) ==
    CASE pkt.cmd = COM_QUERY          -> QueryLayout(Len(pkt.text))
      [] pkt.cmd = COM_REGISTER_SLAVE -> RegistrationLayout
      [] pkt.cmd = COM_BINLOG_DUMP    -> BinlogDumpLayout

\* ------------------------------------------------------ blr_start_master
\* Lines 84-89: connect to the master, master_state = BLRM_AUTHENTICATED.
StartConnect ==
    /\ spc = "connect"
    /\ master_state' = BLRM_AUTHENTICATED
    /\ spc' = "probe"
    /\ UNCHANGED <<active_logs, queue, lock, saved, pc, buf, written, nextId, early, budget, nErr, nChains,
                   lastProc, routerVars, auxVars>>

\* Lines 90-91: the first probe is written to the master.
StartProbe ==
    /\ spc = "probe"
    /\ written' = Append(written, blr_make_query("SELECT UNIX_TIMESTAMP()"))
    /\ spc' = "setstate"
    /\ UNCHANGED <<master_state, active_logs, queue, lock, saved, pc, buf, nextId, early, budget, nErr, nChains,
                   lastProc, routerVars, auxVars>>

\* Line 92: master_state = BLRM_TIMESTAMP.
StartSetState ==
    /\ spc = "setstate"
    /\ master_state' = BLRM_TIMESTAMP
    /\ spc' = "done"
    /\ UNCHANGED <<active_logs, queue, lock, saved, pc, buf, written, nextId, early, budget, nErr, nChains,
                   lastProc, routerVars, auxVars>>

\* --------------------------------------------------- blr_master_response
\* The master has been sent COM_BINLOG_DUMP: what it sends from now on are events.
DumpRequested == \E i \in 1..Len(written) : written[i].cmd = COM_BINLOG_DUMP

CountErr(ps) == Cardinality({k \in 1..Len(ps) : Pkt(ps[k]).ok = MYSQL_ERR_MARKER})

\* The I/O layer calls blr_master_response(router, buf) on thread t.  The master
\* answers only what it has been sent, so nothing arrives before the first probe.
Call(t) ==
    /\ pc[t] = "idle"
    /\ spc \in {"setstate", "done"}
    /\ budget > 0
    /\ budget' = budget - 1
    /\ early' = (early \/ spc # "done")
    /\ Len(queue) < MaxQueue
    /\ \E n \in 1..MaxSeg :
         \E ps \in [1..n -> IF DumpRequested THEN Events ELSE Responses] :
            /\ nErr + CountErr(ps) <= MaxErr
            /\ nErr' = nErr + CountErr(ps)
            /\ nChains + (IF n > 1 THEN 1 ELSE 0) <= MaxChains
            /\ nChains' = nChains + (IF n > 1 THEN 1 ELSE 0)
            /\ buf' = [buf EXCEPT ![t] = NewChain(ps)]
    /\ pc' = [pc EXCEPT ![t] = "acq_gate"]
    /\ UNCHANGED <<master_state, active_logs, queue, lock, saved, spc, written, nextId,
                   lastProc, routerVars, auxVars>>

\* spinlock_acquire(&router->lock) at lines 126, 150/164, 252 and 657.
AfterAcquire(p) ==
    CASE p = "acq_gate" -> "gate"
      [] p = "acq_drop" -> "drop"
      [] p = "acq_pop"  -> "pop"
      [] p = "acq_dist" -> "dist"

Acquire(t) ==
    /\ pc[t] \in {"acq_gate", "acq_drop", "acq_pop", "acq_dist"}
    /\ lock = NoThread
    /\ lock' = t
    /\ pc' = [pc EXCEPT ![t] = AfterAcquire(pc[t])]
    /\ UNCHANGED <<master_state, active_logs, queue, saved, buf, spc, written, nextId,
                   early, budget, nErr, nChains, lastProc, routerVars, auxVars>>

\* Mutant of Gate (C1): the thread that finds the gate free goes on without
\* setting active_logs.
GateNoFlag(t) ==
    /\ pc[t] = "gate"
    /\ lock = t
    /\ nextId' = nextId + 1
    /\ IF active_logs = 1
       THEN /\ queue' = gwbuf_append(queue, Stamp(buf[t], nextId + 1))
            /\ buf' = [buf EXCEPT ![t] = <<>>]
            /\ pc' = [pc EXCEPT ![t] = "idle"]
       ELSE /\ buf' = [buf EXCEPT ![t] = Stamp(buf[t], nextId + 1)]
            /\ pc' = [pc EXCEPT ![t] = "check"]
            /\ UNCHANGED queue
    /\ lock' = NoThread
    /\ UNCHANGED <<master_state, active_logs, saved, spc, written, early, budget, nErr,
                   nChains, lastProc, routerVars, auxVars>>

\* Mutant of Gate (C25): the thread that queues its buffer returns without
\* releasing the lock.
GateReturnsLocked(t) ==
    /\ pc[t] = "gate"
    /\ lock = t
    /\ nextId' = nextId + 1
    /\ IF active_logs = 1
       THEN /\ queue' = gwbuf_append(queue, Stamp(buf[t], nextId + 1))
            /\ buf' = [buf EXCEPT ![t] = <<>>]
            /\ pc' = [pc EXCEPT ![t] = "idle"]
            /\ UNCHANGED <<active_logs, lock>>
       ELSE /\ active_logs' = 1
            /\ buf' = [buf EXCEPT ![t] = Stamp(buf[t], nextId + 1)]
            /\ pc' = [pc EXCEPT ![t] = "check"]
            /\ lock' = NoThread
            /\ UNCHANGED queue
    /\ UNCHANGED <<master_state, saved, spc, written, early, budget, nErr, nChains, lastProc, routerVars, auxVars>>

\* Lines 127-142: the gate.  A thread that finds active_logs set appends its
\* buffer to the queue and returns; otherwise it sets active_logs and goes on.
Gate(t) ==
    /\ pc[t] = "gate"
    /\ lock = t
    /\ nextId' = nextId + 1
    /\ IF active_logs = 1
       THEN /\ queue' = gwbuf_append(queue, Stamp(buf[t], nextId + 1))
            /\ buf' = [buf EXCEPT ![t] = <<>>]
            /\ pc' = [pc EXCEPT ![t] = "idle"]
            /\ UNCHANGED active_logs
       ELSE /\ active_logs' = 1
            /\ buf' = [buf EXCEPT ![t] = Stamp(buf[t], nextId + 1)]
            /\ pc' = [pc EXCEPT ![t] = "check"]
            /\ UNCHANGED queue
    /\ lock' = NoThread
    /\ UNCHANGED <<master_state, saved, spc, written, early, budget, nErr, nChains, lastProc, routerVars, auxVars>>

\* Mutant of Check (C5): the error-packet check is missing.
CheckIgnoresError(t) ==
    /\ pc[t] = "check"
    /\ IF master_state < 0 \/ master_state > BLRM_MAXSTATE
       THEN /\ buf' = [buf EXCEPT ![t] = <<>>]
            /\ pc' = [pc EXCEPT ![t] = "acq_drop"]
       ELSE /\ pc' = [pc EXCEPT ![t] = "step"]
            /\ UNCHANGED buf
    /\ UNCHANGED <<master_state, active_logs, queue, lock, saved, spc, written, nextId,
                   early, budget, nErr, nChains, lastProc, routerVars, auxVars>>

\* Lines 144-149 and 156-163: the invalid-state check and the error-packet check.
\* Either one consumes the buffer and leaves through the exit below.
Check(t) ==
    /\ pc[t] = "check"
    /\ IF master_state < 0 \/ master_state > BLRM_MAXSTATE \/ MYSQL_RESPONSE_ERR(buf[t])
       THEN /\ buf' = [buf EXCEPT ![t] = <<>>]
            /\ pc' = [pc EXCEPT ![t] = "acq_drop"]
       ELSE /\ pc' = [pc EXCEPT ![t] = "step"]
            /\ UNCHANGED buf
    /\ UNCHANGED <<master_state, active_logs, queue, lock, saved, spc, written, nextId,
                   early, budget, nErr, nChains, lastProc, routerVars, auxVars>>

\* Lines 150-153 and 164-167: active_logs = 0 under the lock, and return.
Drop(t) ==
    /\ pc[t] = "drop"
    /\ lock = t
    /\ active_logs' = 0
    /\ lock' = NoThread
    /\ pc' = [pc EXCEPT ![t] = "idle"]
    /\ UNCHANGED <<master_state, queue, saved, buf, spc, written, nextId, early, budget, nErr, nChains,
                   lastProc, routerVars, auxVars>>

\* Mutant of SavedSlot (C18): the response to the timestamp probe is kept in the
\* server_id slot.
SavedSlotKeepsTimestamp(s) ==
    CASE s = BLRM_TIMESTAMP -> "server_id"
      [] s = BLRM_SERVERID -> "server_id"
      [] s = BLRM_HBPERIOD -> "heartbeat"
      [] s = BLRM_CHKSUM1  -> "chksum1"
      [] s = BLRM_CHKSUM2  -> "chksum2"
      [] s = BLRM_GTIDMODE -> "gtid_mode"
      [] s = BLRM_MUUID    -> "uuid"
      [] s = BLRM_SUUID    -> "setslaveuuid"
      [] s = BLRM_LATIN1   -> "setnames"
      [] OTHER             -> ""

\* The switch of lines 170-242 for the states before BLRM_BINLOGDUMP: the slot
\* of saved_master the response is kept in, the state moved to, the packet written.
SavedSlot(s) ==
    CASE s = BLRM_SERVERID -> "server_id"
      [] s = BLRM_HBPERIOD -> "heartbeat"
      [] s = BLRM_CHKSUM1  -> "chksum1"
      [] s = BLRM_CHKSUM2  -> "chksum2"
      [] s = BLRM_GTIDMODE -> "gtid_mode"
      [] s = BLRM_MUUID    -> "uuid"
      [] s = BLRM_SUUID    -> "setslaveuuid"
      [] s = BLRM_LATIN1   -> "setnames"
      [] OTHER             -> ""

\* Mutant of StepState (C4): the answer to SET NAMES latin1 moves the state
\* machine straight to BLRM_BINLOGDUMP.
StepStateSkipsRegister(s) ==
    CASE s = BLRM_TIMESTAMP -> BLRM_SERVERID
      [] s = BLRM_SERVERID  -> BLRM_HBPERIOD
      [] s = BLRM_HBPERIOD  -> BLRM_CHKSUM1
      [] s = BLRM_CHKSUM1   -> BLRM_CHKSUM2
      [] s = BLRM_CHKSUM2   -> BLRM_GTIDMODE
      [] s = BLRM_GTIDMODE  -> BLRM_MUUID
      [] s = BLRM_MUUID     -> BLRM_SUUID
      [] s = BLRM_SUUID     -> BLRM_LATIN1
      [] s = BLRM_LATIN1    -> BLRM_BINLOGDUMP
      [] OTHER              -> s

StepState(s) ==
    CASE s = BLRM_TIMESTAMP -> BLRM_SERVERID
      [] s = BLRM_SERVERID  -> BLRM_HBPERIOD
      [] s = BLRM_HBPERIOD  -> BLRM_CHKSUM1
      [] s = BLRM_CHKSUM1   -> BLRM_CHKSUM2
      [] s = BLRM_CHKSUM2   -> BLRM_GTIDMODE
      [] s = BLRM_GTIDMODE  -> BLRM_MUUID
      [] s = BLRM_MUUID     -> BLRM_SUUID
      [] s = BLRM_SUUID     -> BLRM_LATIN1
      [] s = BLRM_LATIN1    -> BLRM_REGISTER
      [] s = BLRM_REGISTER  -> BLRM_BINLOGDUMP
      [] OTHER              -> s

StepPacket(s) ==
    CASE s = BLRM_TIMESTAMP -> blr_make_query("SHOW VARIABLES LIKE 'SERVER_ID'")
      [] s = BLRM_SERVERID  -> blr_make_query("SET @master_heartbeat_period = 1799999979520")
      [] s = BLRM_HBPERIOD  -> blr_make_query("SET @master_binlog_checksum = @@global.binlog_checksum")
      [] s = BLRM_CHKSUM1   -> blr_make_query("SELECT @master_binlog_checksum")
      [] s = BLRM_CHKSUM2   -> blr_make_query("SELECT @@GLOBAL.GTID_MODE")
      [] s = BLRM_GTIDMODE  -> blr_make_query("SHOW VARIABLES LIKE 'SERVER_UUID'")
      [] s = BLRM_MUUID     -> blr_make_query("SET @slave_uuid='" \o RouterUuid \o "'")
      [] s = BLRM_SUUID     -> blr_make_query("SET NAMES latin1")
      [] s = BLRM_LATIN1    -> blr_make_registration
      [] s = BLRM_REGISTER  -> blr_make_binlog_dump

\* One pass of the switch at lines 170-247 on the thread's buffer.  A state with
\* no case (BLRM_UNCONNECTED, BLRM_AUTHENTICATED) does nothing.  In
\* BLRM_BINLOGDUMP the buffer goes to blr_handle_binlog_record, which first
\* links it after the residual (lines 387-392).
Step(t) ==
    /\ pc[t] = "step"
    /\ lastProc' = buf[t][Len(buf[t])]
    /\ IF master_state = BLRM_BINLOGDUMP
       THEN /\ buf' = [buf EXCEPT ![t] = gwbuf_append(residual, buf[t])]
            /\ residual' = <<>>
            /\ pc' = [pc EXCEPT ![t] = "ingest"]
            /\ UNCHANGED <<master_state, saved, written>>
       ELSE /\ master_state' = StepState(master_state)
            /\ saved' = IF SavedSlot(master_state) = "" THEN saved
                        ELSE [saved EXCEPT ![SavedSlot(master_state)] = buf[t][1]]
            /\ written' = IF master_state \in BLRM_TIMESTAMP..BLRM_REGISTER
                          THEN Append(written, StepPacket(master_state))
                          ELSE written
            /\ buf' = [buf EXCEPT ![t] = <<>>]
            /\ pc' = [pc EXCEPT ![t] = "acq_pop"]
            /\ UNCHANGED residual
    /\ UNCHANGED <<active_logs, queue, lock, spc, nextId, early, budget, nErr, nChains, slaves,
                   binlog_name, binlog_position, stats, sent, fileLog, flushed, auxVars>>

\* Lines 252-263: take the head segment of the queue, or leave the gate.
Pop(t) ==
    /\ pc[t] = "pop"
    /\ lock = t
    /\ IF queue # <<>>
       THEN /\ buf' = [buf EXCEPT ![t] = <<Head(queue)>>]
            /\ queue' = Tail(queue)
            /\ pc' = [pc EXCEPT ![t] = "step"]
            /\ UNCHANGED active_logs
       ELSE /\ active_logs' = 0
            /\ pc' = [pc EXCEPT ![t] = "idle"]
            /\ UNCHANGED <<queue, buf>>
    /\ lock' = NoThread
    /\ UNCHANGED <<master_state, saved, spc, written, nextId, early, budget, nErr, nChains, lastProc, routerVars, auxVars>>

\* ------------------------------------------------ blr_handle_binlog_record
\* The local file component (blr_write_binlog_record, blr_file_rotate,
\* blr_file_flush): an append persists the event in the current file and moves
\* binlog_position to the event's end; a rotate switches the file and position.
blr_write_binlog_record(log, seg) == Append(log, [file |-> binlog_name, seg |-> seg])

\* blr_rotate_event, lines 603-621: does the event name another file?
RotateSwitches(h) == h.rname # binlog_name

\* Mutant of IsFakeFDE (C21): a format description event is taken for a fake
\* only when it also carries the artificial flag.
IsFakeFDENeedsFlag(h) ==
    h.ok = 0 /\ h.etype = FORMAT_DESCRIPTION_EVENT /\ h.next = 0
    /\ h.flags = LOG_EVENT_ARTIFICIAL_F

\* The classification of lines 459-522.
IsFakeFDE(h)    == h.ok = 0 /\ h.etype = FORMAT_DESCRIPTION_EVENT /\ h.next = 0
IsHeartbeat(h)  == h.ok = 0 /\ ~IsFakeFDE(h) /\ h.etype = HEARTBEAT_EVENT
IsOrdinary(h)   == h.ok = 0 /\ ~IsFakeFDE(h) /\ ~IsHeartbeat(h)
                   /\ h.flags # LOG_EVENT_ARTIFICIAL_F
IsArtificial(h) == h.ok = 0 /\ ~IsFakeFDE(h) /\ ~IsHeartbeat(h)
                   /\ h.flags = LOG_EVENT_ARTIFICIAL_F

Bump(st, f) == [st EXCEPT ![f] = @ + 1]

\* Lines 467-468: the histogram of event types has a slot for the types below 0x24.
NEventTypes == 36

CountType(st, e) ==
    IF e >= 0 /\ e < NEventTypes THEN [st EXCEPT !.events[e] = @ + 1] ELSE st

StatsAfter(st, h) ==
    IF h.ok # 0 THEN Bump(st, "n_binlog_errors")
    ELSE LET a == CountType(Bump(st, "n_binlogs"), h.etype)
             b == IF IsFakeFDE(h) THEN Bump(a, "n_fakeevents") ELSE a
         IN  IF (IsOrdinary(h) \/ IsArtificial(h)) /\ h.etype = ROTATE_EVENT
                /\ RotateSwitches(h)
             THEN Bump(b, "n_rotates") ELSE b

\* Mutant of Ingest (C22): an ordinary event goes to the fan-out without having
\* been appended to the local file.
IngestSkipsAppend(t) ==
    /\ pc[t] = "ingest"
    /\ IF buf[t] = <<>> \/ gwbuf_length(buf[t]) <= 24
       THEN /\ residual' = buf[t]
            /\ flushed' = Len(fileLog)
            /\ buf' = [buf EXCEPT ![t] = <<>>]
            /\ pc' = [pc EXCEPT ![t] = "acq_pop"]
            /\ UNCHANGED <<saved, stats, fileLog, binlog_name, binlog_position>>
       ELSE LET seg == buf[t][1]
                h == Pkt(seg.p)
                rot == (IsOrdinary(h) \/ IsArtificial(h)) /\ h.etype = ROTATE_EVENT
                       /\ RotateSwitches(h)
            IN  /\ stats' = StatsAfter(stats, h)
                /\ saved' = IF IsFakeFDE(h) THEN [saved EXCEPT !.fde_event = seg] ELSE saved
                /\ fileLog' = fileLog
                /\ binlog_name' = IF rot THEN h.rname ELSE binlog_name
                /\ binlog_position' = IF rot THEN h.rpos
                                      ELSE IF IsOrdinary(h) THEN h.next
                                      ELSE binlog_position
                /\ IF IsOrdinary(h)
                   THEN /\ pc' = [pc EXCEPT ![t] = "acq_dist"]
                        /\ UNCHANGED buf
                   ELSE /\ buf' = [buf EXCEPT ![t] = Tail(buf[t])]
                        /\ UNCHANGED pc
                /\ UNCHANGED <<residual, flushed>>
    /\ UNCHANGED <<master_state, active_logs, queue, lock, slaves, spc, written, nextId,
                   early, budget, nErr, nChains, lastProc, sent, auxVars>>

\* One pass of the loop at lines 394-535 on the head packet of the chain, or the
\* end of the loop: the rest of the chain becomes the residual and the file is
\* flushed (lines 541-545).  An ordinary event is appended and rotated here and
\* then distributed under the lock (Dist); the chain is advanced after that.
Ingest(t) ==
    /\ pc[t] = "ingest"
    /\ IF buf[t] = <<>> \/ gwbuf_length(buf[t]) <= 24
       THEN /\ residual' = buf[t]
            /\ flushed' = Len(fileLog)
            /\ buf' = [buf EXCEPT ![t] = <<>>]
            /\ pc' = [pc EXCEPT ![t] = "acq_pop"]
            /\ UNCHANGED <<saved, stats, fileLog, binlog_name, binlog_position>>
       ELSE LET seg == buf[t][1]
                h == Pkt(seg.p)
                rot == (IsOrdinary(h) \/ IsArtificial(h)) /\ h.etype = ROTATE_EVENT
                       /\ RotateSwitches(h)
            IN  /\ stats' = StatsAfter(stats, h)
                /\ saved' = IF IsFakeFDE(h) THEN [saved EXCEPT !.fde_event = seg] ELSE saved
                /\ fileLog' = IF IsOrdinary(h) THEN blr_write_binlog_record(fileLog, seg)
                              ELSE fileLog
                /\ binlog_name' = IF rot THEN h.rname ELSE binlog_name
                /\ binlog_position' = IF rot THEN h.rpos
                                      ELSE IF IsOrdinary(h) THEN h.next
                                      ELSE binlog_position
                /\ IF IsOrdinary(h)
                   THEN /\ pc' = [pc EXCEPT ![t] = "acq_dist"]
                        /\ UNCHANGED buf
                   ELSE /\ buf' = [buf EXCEPT ![t] = Tail(buf[t])]
                        /\ UNCHANGED pc
                /\ UNCHANGED <<residual, flushed>>
    /\ UNCHANGED <<master_state, active_logs, queue, lock, slaves, spc, written, nextId,
                   early, budget, nErr, nChains, lastProc, sent, auxVars>>

\* ------------------------------------ blr_handle_binlog_record on bytes
\* Here a buffer chain is a sequence of segments and a segment is a non-empty
\* sequence of bytes, as the I/O layer reads them from the master's socket.
STOP_EVENT == 3

\* a + b in 32 bits.
Add32(a, b) ==
    U32((a.hi + b.hi + ((a.lo + b.lo) \div 65536)) % 65536, (a.lo + b.lo) % 65536)

Min(a, b) == IF a < b THEN a ELSE b

\* ptr[i - 1] for a pointer to the bytes of view: past the end of the bytes the
\* read is out of bounds and yields whatever is there (g).
At(view, i, g) == IF i \in 1..Len(view) THEN view[i] ELSE g

\* The n bytes at ptr + off.
Read(view, off, n, g) == [k \in 1..n |-> At(view, off + k, g)]

\* gwbuf_length on a chain of byte segments.
RECURSIVE gwbuf_length_bytes(_)
gwbuf_length_bytes(c) == IF c = <<>> THEN 0 ELSE Len(c[1]) + gwbuf_length_bytes(Tail(c))

\* All the bytes of a chain.
RECURSIVE Flatten(_)
Flatten(c) == IF c = <<>> THEN <<>> ELSE c[1] \o Flatten(Tail(c))

\* gwbuf_consume(pkt, n): the chain advanced by n bytes; a segment that has no
\* bytes left is freed.
RECURSIVE gwbuf_consume(_, _)
gwbuf_consume(c, n) ==
    IF c = <<>> \/ n = 0 THEN c
    ELSE IF n < Len(c[1]) THEN <<SubSeq(c[1], n + 1, Len(c[1]))>> \o Tail(c)
    ELSE gwbuf_consume(Tail(c), n - Len(c[1]))

\* Lines 396-420: the length of the packet at the head of the chain, read from
\* the head segment and, when that has fewer than 3 bytes, from the next one.
PacketLen(head, nxt, g) ==
    IF Len(head) >= 3 THEN Val(extract_field(head, 24)) + 4
    ELSE IF Len(head) = 2
         THEN Val(extract_field(head, 16))
              + Val(extract_field(Read(nxt, 0, 1, g), 8)) * 65536 + 4
         ELSE Val(extract_field(head, 8))
              + Val(extract_field(Read(nxt, 0, 2, g), 16)) * 256 + 4

\* blr_extract_header, lines 558-566.  rname is not a field of REP_HEADER: it is
\* where the file name read by blr_rotate_event is kept for the slave's hook.
blr_extract_header(ptr, g) ==
    [payload_len |-> Val(extract_field(Read(ptr, 0, 3, g), 24)),
     seqno       |-> At(ptr, 4, g),
     ok          |-> At(ptr, 5, g),
     timestamp   |-> Val(extract_field(Read(ptr, 5, 4, g), 32)),
     etype       |-> At(ptr, 10, g),
     serverid    |-> Val(extract_field(Read(ptr, 10, 4, g), 32)),
     size        |-> Val(extract_field(Read(ptr, 14, 4, g), 32)),
     next        |-> Val(extract_field(Read(ptr, 18, 4, g), 32)),
     flags       |-> Val(extract_field(Read(ptr, 22, 2, g), 16)),
     rname       |-> <<>>]

\* The event_size bytes at ptr + 5 that are written to the file and sent to the
\* slaves: the bytes that are there, and how many are read past them.
EventData(ptr, size) ==
    [data |-> SubSeq(ptr, 6, Min(5 + size, Len(ptr))),
     over |-> IF 5 + size > Len(ptr) THEN 5 + size - Len(ptr) ELSE 0]

\* A C string: the bytes before the first NUL.
RECURSIVE CStr(_)
CStr(b) == IF b = <<>> \/ b[1] = 0 THEN <<>> ELSE <<b[1]>> \o CStr(Tail(b))

\* ------------------------------------------- blr_distribute_binlog_record
\* Line 661: the slave's position is the start of the event.  The subtraction is
\* unsigned; positions in this model stay far below 2^32, so it wraps only when
\* event_size > next_pos, to a value no modelled slave position equals.
Matches(sl, h) == sl.binlog_pos = h.next - h.size

\* blr_slave_rotate: the slave's file tracking moves to the file of the event.
blr_slave_rotate(sl, h) == [sl EXCEPT !.binlogfile = h.rname]

\* Mutant of Dispatch (C9): the slave's position is not moved to next_pos.
DispatchKeepsPos(sl, h) ==
    LET a == [sl EXCEPT !.seqno = (@ + 1) % 256]
    IN  IF h.etype = ROTATE_EVENT THEN blr_slave_rotate(a, h) ELSE a

\* Mutant of Dispatch (C10): the slave's seqno is not incremented.
DispatchKeepsSeqno(sl, h) ==
    LET a == [sl EXCEPT !.binlog_pos = h.next]
    IN  IF h.etype = ROTATE_EVENT THEN blr_slave_rotate(a, h) ELSE a

\* Lines 663-675 for one matching slave: the slave after the dispatch.
Dispatch(sl, h) ==
    LET a == [sl EXCEPT !.seqno = (@ + 1) % 256, !.binlog_pos = h.next]
    IN  IF h.etype = ROTATE_EVENT THEN blr_slave_rotate(a, h) ELSE a

\* Lines 663-670: the packet written to the slave.
SlavePacket(sl, seg) ==
    [len |-> Pkt(seg.p).size + 1, seq |-> sl.seqno % 256, ok |-> 0, seg |-> seg]

\* The slaves up to the first one that does not match the event.
RECURSIVE MatchingPrefix(_, _)
MatchingPrefix(sls, h) ==
    IF sls = <<>> \/ ~Matches(sls[1], h) THEN 0 ELSE 1 + MatchingPrefix(Tail(sls), h)

\* Mutant of Dist (C8): the walk ends at the first slave that does not match.
DistStopsAtSkip(t) ==
    /\ pc[t] = "dist"
    /\ lock = t
    /\ LET seg == buf[t][1]
           h == Pkt(seg.p)
           n == MatchingPrefix(slaves, h)
       IN  /\ slaves' = [i \in 1..Len(slaves) |->
                            IF i <= n THEN Dispatch(slaves[i], h) ELSE slaves[i]]
           /\ sent' = [i \in 1..Len(slaves) |->
                            IF i <= n
                            THEN [sent[i] EXCEPT !.pkts = Append(@, SlavePacket(slaves[i], seg))]
                            ELSE sent[i]]
    /\ lock' = NoThread
    /\ buf' = [buf EXCEPT ![t] = Tail(buf[t])]
    /\ pc' = [pc EXCEPT ![t] = "ingest"]
    /\ UNCHANGED <<master_state, active_logs, queue, residual, saved, binlog_name,
                   binlog_position, stats, spc, written, nextId, early, budget, nErr,
                   nChains, lastProc, fileLog, flushed, auxVars>>

\* Lines 657-680: the walk over the slave list, under the lock.
Dist(t) ==
    /\ pc[t] = "dist"
    /\ lock = t
    /\ LET seg == buf[t][1]
           h == Pkt(seg.p)
       IN  /\ slaves' = [i \in 1..Len(slaves) |->
                            IF Matches(slaves[i], h) THEN Dispatch(slaves[i], h)
                            ELSE slaves[i]]
           /\ sent' = [i \in 1..Len(slaves) |->
                            IF Matches(slaves[i], h)
                            THEN [sent[i] EXCEPT !.pkts = Append(@, SlavePacket(slaves[i], seg))]
                            ELSE sent[i]]
    /\ lock' = NoThread
    /\ buf' = [buf EXCEPT ![t] = Tail(buf[t])]
    /\ pc' = [pc EXCEPT ![t] = "ingest"]
    /\ UNCHANGED <<master_state, active_logs, queue, residual, saved, binlog_name,
                   binlog_position, stats, spc, written, nextId, early, budget, nErr, nChains, lastProc, fileLog, flushed, auxVars>>

\* A downstream replica completes its registration (outside this file): a slave
\* entry is linked into the list under the lock.
RegisterSlave ==
    /\ lock = NoThread
    /\ Len(slaves) < MaxSlaves
    /\ \E pos \in SlavePositions, sq \in SlaveSeqnos :
         /\ slaves' = Append(slaves, [binlog_pos |-> pos, seqno |-> sq,
                                      binlogfile |-> binlog_name])
         /\ sent' = Append(sent, [seq0 |-> sq, pkts |-> <<>>])
    /\ UNCHANGED <<master_state, active_logs, queue, lock, residual, saved, binlog_name,
                   binlog_position, stats, pc, buf, spc, written, nextId, early, budget, nErr, nChains,
                   lastProc, fileLog, flushed, auxVars>>

\* ------------------------------ blr_handle_binlog_record on bytes: the call
\* The router while blr_handle_binlog_record runs: pkt is the chain the loop
\* works on; the other fields are the fields of the instance it changes.

\* blr_file_rotate(router, file, pos): the file component switches to the file
\* at the position it is given; pos is the uint64_t argument, as two halves.
blr_file_rotate(st, file, pos) ==
    [st EXCEPT !.name = file, !.pos = Val(pos),
               !.rotated = Append(@, [name |-> file, lo |-> pos, hi |-> U32(0, 0)])]

\* Line 606: the BINLOG_FNAMELEN bytes after the position, as a C string.
RotateName(ptr, g) == CStr(Read(ptr, 32, BINLOG_FNAMELEN, g))

\* blr_rotate_event, lines 603-621; ptr is the packet, the event starts at
\* ptr + 5 and its body at ptr + 24.  Line 605 shifts a uint32_t by 32 bits,
\* which is undefined: a build either shifts by 32 mod 32 = 0 (sh) or yields 0.
blr_rotate_event(st, ptr, g, sh) ==
    LET lo == extract_field(Read(ptr, 24, 4, g), 32)
        hi == extract_field(Read(ptr, 28, 4, g), 32)
        pos == IF sh THEN Add32(lo, hi) ELSE lo
        file == RotateName(ptr, g)
    IN  IF file # st.name
        THEN blr_file_rotate([st EXCEPT !.stats = Bump(@, "n_rotates")], file, pos)
        ELSE st

\* blr_write_binlog_record on bytes: the event is appended to the current file
\* and binlog_position moves to the event's end.
WriteRecord(st, h, ptr) ==
    [st EXCEPT !.log = Append(@, [file |-> st.name, at |-> h.next - h.size,
                                  ev |-> EventData(ptr, h.size)]),
               !.pos = h.next]

\* blr_distribute_binlog_record, lines 657-680, on bytes.
blr_distribute_binlog_record(st, h, ptr, g) ==
    LET hx == IF h.etype = ROTATE_EVENT THEN [h EXCEPT !.rname = RotateName(ptr, g)] ELSE h
    IN  [st EXCEPT
           !.slaves = [i \in 1..Len(st.slaves) |->
                          IF Matches(st.slaves[i], hx) THEN Dispatch(st.slaves[i], hx)
                          ELSE st.slaves[i]],
           !.sent = [i \in 1..Len(st.slaves) |->
                          IF Matches(st.slaves[i], hx)
                          THEN [st.sent[i] EXCEPT !.pkts =
                                   Append(@, [len |-> h.size + 1,
                                              seq |-> st.slaves[i].seqno % 256,
                                              ok |-> 0, seg |-> EventData(ptr, h.size)])]
                          ELSE st.sent[i]]]

\* Lines 458-522 for one message: ptr points at the message (msg, or the head
\* segment at the packet), len is the packet's length.
ProcessMessage(st, ptr, len, g, sh) ==
    LET h == blr_extract_header(ptr, g)
        s1 == [st EXCEPT !.extracted = Append(@, Read(ptr, 0, len, g))]
    IN  IF h.ok # 0 THEN [s1 EXCEPT !.stats = Bump(@, "n_binlog_errors")]
        ELSE LET s2 == [s1 EXCEPT !.stats = CountType(Bump(@, "n_binlogs"), h.etype)]
             IN  IF IsFakeFDE(h)
                 THEN [s2 EXCEPT !.stats = Bump(@, "n_fakeevents"),
                                 !.fde = EventData(ptr, h.size)]
                 ELSE IF IsHeartbeat(h) THEN s2
                 ELSE IF IsOrdinary(h)
                 THEN LET s3 == WriteRecord(s2, h, ptr)
                          s4 == IF h.etype = ROTATE_EVENT
                                THEN blr_rotate_event(s3, ptr, g, sh) ELSE s3
                      IN  blr_distribute_binlog_record(s4, h, ptr, g)
                 ELSE IF h.etype = ROTATE_EVENT
                      THEN blr_rotate_event(s2, ptr, g, sh) ELSE s2

\* The loop of lines 394-535.
RECURSIVE HandleLoop(_, _, _)
HandleLoop(st, g, sh) ==
    IF st.pkt = <<>> \/ gwbuf_length_bytes(st.pkt) <= 24 THEN st
    ELSE LET head == st.pkt[1]
             nxt == IF Len(st.pkt) > 1 THEN st.pkt[2] ELSE <<>>
             reslen == Len(head)
             len == PacketLen(head, nxt, g)
         IN  IF reslen < len /\ gwbuf_length_bytes(st.pkt) >= len
             THEN \* lines 432-438: msg is the head segment and len - reslen
                  \* bytes read at the data of the next segment
                  LET msg == head \o Read(nxt, 0, len - reslen, g)
                      s1 == ProcessMessage(st, msg, len, g, sh)
                  IN  HandleLoop([s1 EXCEPT !.pkt =
                                     gwbuf_consume(gwbuf_consume(st.pkt, reslen), len - reslen)],
                                 g, sh)
             ELSE IF reslen < len THEN st
             ELSE LET s1 == ProcessMessage(st, head, len, g, sh)
                  IN  HandleLoop([s1 EXCEPT !.pkt = gwbuf_consume(st.pkt, len)], g, sh)

\* The lengths of the segments a read of the socket yields (besides all that is
\* left of the stream), and the bytes found past the end of a buffer.
SegLens == {1, 2, 90}
GarbageBytes == {0, 63}

\* The wire cut into segments of the lengths ls.
RECURSIVE Cut(_, _)
Cut(w, ls) ==
    IF ls = <<>> THEN <<>>
    ELSE <<SubSeq(w, 1, ls[1])>> \o Cut(SubSeq(w, ls[1] + 1, Len(w)), Tail(ls))

RECURSIVE Sum(_)
Sum(ls) == IF ls = <<>> THEN 0 ELSE ls[1] + Sum(Tail(ls))

\* Mutant of HandleBinlogBytes (C23): the file is flushed only when the loop has
\* drained the chain, not when it stopped on an incomplete packet.
HandleBinlogBytesFlushWhenDrained ==
    /\ master_state = BLRM_BINLOGDUMP
    /\ wire # <<>>
    /\ budget > 0
    /\ budget' = budget - 1
    /\ \E n \in 1..MaxSeg :
         \E ls \in [1..n -> {l \in SegLens \cup {Len(wire)} : l <= Len(wire)}] :
            /\ Sum(ls) <= Len(wire)
            /\ nChains + (IF n > 1 THEN 1 ELSE 0) <= MaxChains
            /\ nChains' = nChains + (IF n > 1 THEN 1 ELSE 0)
            /\ wire' = SubSeq(wire, Sum(ls) + 1, Len(wire))
            /\ \E g \in GarbageBytes, sh \in BOOLEAN :
                 LET st == HandleLoop([pkt |-> gwbuf_append(residual, Cut(wire, ls)),
                                       stats |-> stats, name |-> binlog_name,
                                       pos |-> binlog_position, log |-> fileLog,
                                       slaves |-> slaves, sent |-> sent,
                                       extracted |-> extracted, rotated |-> rotated,
                                       fde |-> saved.fde_event], g, sh)
                 IN  /\ residual' = st.pkt
                     /\ stats' = st.stats
                     /\ binlog_name' = st.name
                     /\ binlog_position' = st.pos
                     /\ fileLog' = st.log
                     /\ flushed' = IF st.pkt = <<>> THEN Len(st.log) ELSE flushed
                     /\ slaves' = st.slaves
                     /\ sent' = st.sent
                     /\ extracted' = st.extracted
                     /\ rotated' = st.rotated
                     /\ saved' = [saved EXCEPT !.fde_event = st.fde]
    /\ UNCHANGED <<master_state, active_logs, queue, lock, pc, buf, spc, written, nextId,
                   early, nErr, lastProc, stream, codecVars>>

\* One call of blr_handle_binlog_record (made inside the gate, in
\* BLRM_BINLOGDUMP) with the next bytes of the master's stream, read into up to
\* MaxSeg segments.
HandleBinlogBytes ==
    /\ master_state = BLRM_BINLOGDUMP
    /\ wire # <<>>
    /\ budget > 0
    /\ budget' = budget - 1
    /\ \E n \in 1..MaxSeg :
         \E ls \in [1..n -> {l \in SegLens \cup {Len(wire)} : l <= Len(wire)}] :
            /\ Sum(ls) <= Len(wire)
            /\ nChains + (IF n > 1 THEN 1 ELSE 0) <= MaxChains
            /\ nChains' = nChains + (IF n > 1 THEN 1 ELSE 0)
            /\ wire' = SubSeq(wire, Sum(ls) + 1, Len(wire))
            /\ \E g \in GarbageBytes, sh \in BOOLEAN :
                 LET st == HandleLoop([pkt |-> gwbuf_append(residual, Cut(wire, ls)),
                                       stats |-> stats, name |-> binlog_name,
                                       pos |-> binlog_position, log |-> fileLog,
                                       slaves |-> slaves, sent |-> sent,
                                       extracted |-> extracted, rotated |-> rotated,
                                       fde |-> saved.fde_event], g, sh)
                 IN  /\ residual' = st.pkt
                     /\ stats' = st.stats
                     /\ binlog_name' = st.name
                     /\ binlog_position' = st.pos
                     /\ fileLog' = st.log
                     /\ flushed' = Len(st.log)
                     /\ slaves' = st.slaves
                     /\ sent' = st.sent
                     /\ extracted' = st.extracted
                     /\ rotated' = st.rotated
                     /\ saved' = [saved EXCEPT !.fde_event = st.fde]
    /\ UNCHANGED <<master_state, active_logs, queue, lock, pc, buf, spc, written, nextId,
                   early, nErr, lastProc, stream, codecVars>>

\* ---------------------------------------------------------- specification
InitialBinlogName == "mysql-bin.000001"
InitialBinlogPosition == 4

NoSaved == [server_id |-> NULLBUF, heartbeat |-> NULLBUF, chksum1 |-> NULLBUF,
            chksum2 |-> NULLBUF, gtid_mode |-> NULLBUF, uuid |-> NULLBUF,
            setslaveuuid |-> NULLBUF, setnames |-> NULLBUF, fde_event |-> NULLBUF]

NoStats == [n_binlogs |-> 0, n_fakeevents |-> 0, n_rotates |-> 0, n_binlog_errors |-> 0,
            events |-> [e \in 0..(NEventTypes - 1) |-> 0]]

\* The codec and the byte stream at rest.
CodecIdle ==
    /\ cval = U32(0, 0) /\ cbits = 0 /\ cdata = <<>> /\ cout = U32(0, 0) /\ cpc = "off"

StreamIdle ==
    /\ wire = <<>> /\ stream = <<>> /\ extracted = <<>> /\ rotated = <<>>

RouterInit ==
    /\ master_state = BLRM_UNCONNECTED
    /\ active_logs = 0
    /\ queue = <<>>
    /\ lock = NoThread
    /\ residual = <<>>
    /\ saved = NoSaved
    /\ slaves = <<>>
    /\ binlog_name = InitialBinlogName
    /\ binlog_position = InitialBinlogPosition
    /\ stats = NoStats
    /\ pc = [t \in Threads |-> "idle"]
    /\ buf = [t \in Threads |-> <<>>]
    /\ spc = "connect"
    /\ written = <<>>
    /\ nextId = 0
    /\ early = FALSE
    /\ budget = MaxDeliveries
    /\ nErr = 0
    /\ nChains = 0
    /\ lastProc = NULLBUF
    /\ sent = <<>>
    /\ fileLog = <<>>
    /\ flushed = 0

Init == RouterInit /\ CodecIdle /\ StreamIdle

\* The steps of the threads inside blr_master_response.
ThreadNext ==
    \/ \E t \in Threads : Call(t)
    \/ \E t \in Threads : Acquire(t)
    \/ \E t \in Threads : Gate(t)
    \/ \E t \in Threads : Check(t)
    \/ \E t \in Threads : Drop(t)
    \/ \E t \in Threads : Step(t)
    \/ \E t \in Threads : Pop(t)
    \/ \E t \in Threads : Ingest(t)
    \/ \E t \in Threads : Dist(t)

\* The router from its construction: blr_start_master and the master's answers.
Next ==
    \/ StartConnect
    \/ StartProbe
    \/ StartSetState
    \/ ThreadNext

Spec == Init /\ [][Next]_vars

\* The router in the streaming phase: the state in which blr_start_master and ten
\* answers delivered one after the other leave it, with the slave list still
\* empty.  Slaves register while the master's events arrive.
Query(text) == [cmd |-> COM_QUERY, text |-> text, pos |-> 0, name |-> ""]

HandshakePackets ==
    << Query("SELECT UNIX_TIMESTAMP()"),
       Query("SHOW VARIABLES LIKE 'SERVER_ID'"),
       Query("SET @master_heartbeat_period = 1799999979520"),
       Query("SET @master_binlog_checksum = @@global.binlog_checksum"),
       Query("SELECT @master_binlog_checksum"),
       Query("SELECT @@GLOBAL.GTID_MODE"),
       Query("SHOW VARIABLES LIKE 'SERVER_UUID'"),
       Query("SET @slave_uuid='<uuid>'"),
       Query("SET NAMES latin1"),
       [cmd |-> COM_REGISTER_SLAVE, text |-> "", pos |-> 0, name |-> ""],
       [cmd |-> COM_BINLOG_DUMP, text |-> "", pos |-> InitialBinlogPosition,
        name |-> InitialBinlogName] >>

Answer(i) == [id |-> i, k |-> 1, p |-> OkResponse]

InitDump ==
    /\ master_state = BLRM_BINLOGDUMP
    /\ active_logs = 0
    /\ queue = <<>>
    /\ lock = NoThread
    /\ residual = <<>>
    /\ saved = [server_id |-> Answer(2), heartbeat |-> Answer(3), chksum1 |-> Answer(4),
                chksum2 |-> Answer(5), gtid_mode |-> Answer(6), uuid |-> Answer(7),
                setslaveuuid |-> Answer(8), setnames |-> Answer(9), fde_event |-> NULLBUF]
    /\ slaves = <<>>
    /\ binlog_name = InitialBinlogName
    /\ binlog_position = InitialBinlogPosition
    /\ stats = NoStats
    /\ pc = [t \in Threads |-> "idle"]
    /\ buf = [t \in Threads |-> <<>>]
    /\ spc = "done"
    /\ written = HandshakePackets
    /\ nextId = 10
    /\ early = FALSE
    /\ budget = MaxEvents
    /\ nErr = 0
    /\ nChains = 0
    /\ lastProc = Answer(10)
    /\ sent = <<>>
    /\ fileLog = <<>>
    /\ flushed = 0
    /\ CodecIdle /\ StreamIdle

NextDump ==
    \/ RegisterSlave
    \/ ThreadNext

SpecDump == InitDump /\ [][NextDump]_vars

\* The codec on its own: every width, and values whose bytes are drawn from
\* CodecBytes (the bytes above the width are zero: the value fits).
CodecWidths == {8, 16, 24, 32}
CodecBytes == {0, 1, 127, 128, 255}

InitCodec ==
    /\ RouterInit /\ StreamIdle
    /\ cbits \in CodecWidths
    /\ \E b1, b2, b3, b4 \in CodecBytes :
         /\ (cbits < 16 => b2 = 0) /\ (cbits < 24 => b3 = 0) /\ (cbits < 32 => b4 = 0)
         /\ cval = U32(b4 * 256 + b3, b2 * 256 + b1)
    /\ cdata = <<>> /\ cout = U32(0, 0) /\ cpc = "encode"

NextCodec ==
    \/ CodecEncode /\ UNCHANGED <<master_state, active_logs, queue, lock, saved, pc, buf,
                                   spc, written, nextId, early, budget, nErr, nChains,
                                   lastProc, routerVars, streamVars>>
    \/ CodecExtract /\ UNCHANGED <<master_state, active_logs, queue, lock, saved, pc, buf,
                                    spc, written, nextId, early, budget, nErr, nChains,
                                    lastProc, routerVars, streamVars>>

SpecCodec == InitCodec /\ [][NextCodec]_vars

\* The master's byte stream.  File names are strings of character codes.
File1 == <<109, 121, 115, 113, 108, 45, 98, 105, 110, 46, 48, 48, 48, 48, 48, 49>>
File7 == <<109, 121, 115, 113, 108, 45, 98, 105, 110, 46, 48, 48, 48, 48, 48, 55>>

\* A binlog event as the master frames it: 3 bytes of payload length, the
\* sequence id, the OK byte, the 19 bytes of the event header, the body.
MkEvent(etype, flags, next, body) ==
    encode_value(ToU32(19 + Len(body) + 1), 24) \o <<0, 0>>
    \o <<0, 0, 0, 0>> \o <<etype>> \o <<0, 0, 0, 0>>
    \o encode_value(ToU32(19 + Len(body)), 32) \o encode_value(ToU32(next), 32)
    \o encode_value(ToU32(flags), 16) \o body

\* The body of a rotate event: the 64-bit position, low half first, and the name.
RotateBody(poslo, poshi, name) ==
    encode_value(ToU32(poslo), 32) \o encode_value(ToU32(poshi), 32) \o name

\* The packets of the stream, by name.  start, next: the event's place in its
\* file (0, 0 for a packet that has none); lo, hi, name: what a rotate carries.
WirePkt(n) ==
    CASE n = "query"      -> [bytes |-> MkEvent(QUERY_EVENT, 0, 1021, <<7, 8>>),
                              start |-> 1000, next |-> 1021, rot |-> FALSE]
      [] n = "big"        -> [bytes |-> MkEvent(QUERY_EVENT, 0, 1120, [k \in 1..80 |-> 100 + k]),
                              start |-> 1021, next |-> 1120, rot |-> FALSE]
      [] n = "stop"       -> [bytes |-> MkEvent(STOP_EVENT, 0, 1139, <<>>),
                              start |-> 1120, next |-> 1139, rot |-> FALSE]
      [] n = "rotate7"    -> [bytes |-> MkEvent(ROTATE_EVENT, 0, 1163, RotateBody(4, 0, File7)),
                              start |-> 1120, next |-> 1163, rot |-> TRUE,
                              lo |-> 4, hi |-> 0, name |-> File7]
      [] n = "rotate64"   -> [bytes |-> MkEvent(ROTATE_EVENT, 0, 1163, RotateBody(4, 1, File7)),
                              start |-> 1120, next |-> 1163, rot |-> TRUE,
                              lo |-> 4, hi |-> 1, name |-> File7]
      [] n = "fakerotate" -> [bytes |-> MkEvent(ROTATE_EVENT, LOG_EVENT_ARTIFICIAL_F, 0,
                                                RotateBody(4, 0, File1)),
                              start |-> 0, next |-> 0, rot |-> TRUE,
                              lo |-> 4, hi |-> 0, name |-> File1]
      [] n = "fakerotate7" -> [bytes |-> MkEvent(ROTATE_EVENT, LOG_EVENT_ARTIFICIAL_F, 0,
                                                 RotateBody(4, 0, File7)),
                              start |-> 0, next |-> 0, rot |-> TRUE,
                              lo |-> 4, hi |-> 0, name |-> File7]
      [] n = "artificial" -> [bytes |-> MkEvent(QUERY_EVENT, LOG_EVENT_ARTIFICIAL_F, 1021, <<9, 9>>),
                              start |-> 0, next |-> 0, rot |-> FALSE]
      [] n = "artificial8" -> [bytes |-> MkEvent(QUERY_EVENT, LOG_EVENT_ARTIFICIAL_F + 8, 1021,
                                                 <<9, 9>>),
                              start |-> 0, next |-> 0, rot |-> FALSE]
      [] n = "fakefde"    -> [bytes |-> MkEvent(FORMAT_DESCRIPTION_EVENT, 0, 0,
                                                [k \in 1..50 |-> 200 + k]),
                              start |-> 0, next |-> 0, rot |-> FALSE]
      [] n = "error"      -> [bytes |-> encode_value(ToU32(26), 24) \o <<1, MYSQL_ERR_MARKER>>
                                        \o [k \in 1..25 |-> 69],
                              start |-> 0, next |-> 0, rot |-> FALSE]

WirePackets == {"query", "big", "stop", "rotate7", "rotate64", "fakerotate", "fakerotate7",
                "artificial", "artificial8", "fakefde", "error"}

\* A stream a master sends: within a file the events follow one another.
InFileOrder(ps) ==
    \A i, j \in 1..Len(ps) :
        (i < j /\ WirePkt(ps[i]).next > 0 /\ WirePkt(ps[j]).next > 0
           /\ \A k \in i..(j - 1) : ~WirePkt(ps[k]).rot)
        => WirePkt(ps[i]).next <= WirePkt(ps[j]).start

\* The streams: one packet, or the event at the slave's position followed by
\* further packets.
Streams ==
    UNION {{ps \in [1..n -> WirePackets] :
               InFileOrder(ps) /\ (n > 1 => ps[1] = "query")} : n \in 1..MaxPkts}

RECURSIVE WireOf(_)
WireOf(ps) == IF ps = <<>> THEN <<>> ELSE WirePkt(ps[1]).bytes \o WireOf(Tail(ps))

\* The router in the streaming phase with one slave at position 1000, about to
\* be handed the bytes of a stream.
InitStream ==
    /\ master_state = BLRM_BINLOGDUMP
    /\ active_logs = 0
    /\ queue = <<>>
    /\ lock = NoThread
    /\ residual = <<>>
    /\ saved = [server_id |-> Answer(2), heartbeat |-> Answer(3), chksum1 |-> Answer(4),
                chksum2 |-> Answer(5), gtid_mode |-> Answer(6), uuid |-> Answer(7),
                setslaveuuid |-> Answer(8), setnames |-> Answer(9), fde_event |-> NULLBUF]
    /\ slaves = <<[binlog_pos |-> 1000, seqno |-> 0, binlogfile |-> File1]>>
    /\ binlog_name = File1
    /\ binlog_position = InitialBinlogPosition
    /\ stats = NoStats
    /\ pc = [t \in Threads |-> "idle"]
    /\ buf = [t \in Threads |-> <<>>]
    /\ spc = "done"
    /\ written = HandshakePackets
    /\ nextId = 10
    /\ early = FALSE
    /\ budget = MaxCalls
    /\ nErr = 0
    /\ nChains = 0
    /\ lastProc = Answer(10)
    /\ sent = <<[seq0 |-> 0, pkts |-> <<>>]>>
    /\ fileLog = <<>>
    /\ flushed = 0
    /\ CodecIdle
    /\ stream \in Streams
    /\ wire = WireOf(stream)
    /\ extracted = <<>>
    /\ rotated = <<>>

NextStream == HandleBinlogBytes

SpecStream == InitStream /\ [][NextStream]_vars

\* The state InitDump describes, but for the environment's budget.
HandshakeDone ==
    /\ master_state = BLRM_BINLOGDUMP /\ active_logs = 0 /\ queue = <<>>
    /\ lock = NoThread /\ residual = <<>>
    /\ saved = [server_id |-> Answer(2), heartbeat |-> Answer(3), chksum1 |-> Answer(4),
                chksum2 |-> Answer(5), gtid_mode |-> Answer(6), uuid |-> Answer(7),
                setslaveuuid |-> Answer(8), setnames |-> Answer(9), fde_event |-> NULLBUF]
    /\ slaves = <<>> /\ binlog_name = InitialBinlogName
    /\ binlog_position = InitialBinlogPosition
    /\ stats = NoStats
    /\ pc = [t \in Threads |-> "idle"] /\ buf = [t \in Threads |-> <<>>]
    /\ spc = "done" /\ written = HandshakePackets /\ nextId = 10
    /\ early = FALSE /\ nErr = 0 /\ nChains = 0 /\ lastProc = Answer(10)
    /\ sent = <<>> /\ fileLog = <<>> /\ flushed = 0

\* ================================================================ claims
\* A thread is past the gate from the moment it has set active_logs until it has
\* cleared it (Drop, or Pop on an empty queue).
Inside(t) == pc[t] \notin {"idle", "acq_gate", "gate"}

AllIdle == \A t \in Threads : pc[t] = "idle"

\* Thread t takes the step that leaves the place p.
Leaves(t, p) == pc[t] = p /\ pc'[t] # p

\* Segment a was delivered later than segment b (gate order, then place in the chain).
Later(a, b) == a.id > b.id \/ (a.id = b.id /\ a.k > b.k)

\* C1: at most one thread at a time is past the gate; whenever a thread is past
\* the gate active_logs is 1; and an arrival that finds another thread past the
\* gate only appends its buffer to the queue and returns.
C1_OneThreadInside ==
    /\ [](/\ Cardinality({t \in Threads : Inside(t)}) <= 1
          /\ ((\E t \in Threads : Inside(t)) => active_logs = 1))
    /\ [][\A t \in Threads :
            (Leaves(t, "gate") /\ (\E u \in Threads : Inside(u)))
            => /\ pc'[t] = "idle"
               /\ Len(queue') = Len(queue) + Len(buf[t])
               /\ SubSeq(queue', 1, Len(queue)) = queue
               /\ \A k \in 1..Len(buf[t]) : queue'[Len(queue) + k].p = buf[t][k].p
               /\ UNCHANGED <<master_state, active_logs, saved, written, residual,
                              slaves, sent, fileLog, stats>>]_vars

\* C1 witness: a thread is past the gate while another arrival has been queued.
C1_Witness == (\E t \in Threads : Inside(t)) /\ queue # <<>> /\ active_logs = 1

\* C2: every buffer handed to the switch was delivered later than the buffer
\* handed to it before, whichever way the earlier calls left.
C2_DeliveryOrder ==
    [][\A t \in Threads : Leaves(t, "step") => Later(buf[t][1], lastProc)]_vars

\* C3: whenever no thread is inside blr_master_response, active_logs is 0 and
\* the queue is empty.
C3_IdleMeansDrained == AllIdle => (active_logs = 0 /\ queue = <<>>)

\* The scenario of C4: blr_start_master returned before the first delivery, n
\* deliveries were made, none carried the error marker, and every call returned.
HandshakeRun(n) == spc = "done" /\ ~early /\ nErr = 0 /\ nextId = n /\ AllIdle

\* C4 as stated: after blr_start_master and nine OK responses the eleven packets
\* have been written and master_state is BLRM_BINLOGDUMP.
C4_NineResponses ==
    HandshakeRun(9) => (written = HandshakePackets /\ master_state = BLRM_BINLOGDUMP)

\* C4 amended: the packets are written in the stated order, and after
\* blr_start_master and ten OK responses (one for each of the states
\* TIMESTAMP..REGISTER) all eleven have been written and master_state is
\* BLRM_BINLOGDUMP.
C4_TenResponses ==
    /\ Len(written) <= Len(HandshakePackets)
    /\ written = SubSeq(HandshakePackets, 1, Len(written))
    /\ HandshakeRun(10) => (written = HandshakePackets /\ master_state = BLRM_BINLOGDUMP)

\* C4 witness: the ten responses have been delivered and processed.
C4_Witness == HandshakeRun(10) /\ nChains = 0 /\ master_state = BLRM_BINLOGDUMP

\* C5: a response with the error marker admitted through the gate in a state
\* before BLRM_BINLOGDUMP is consumed by the error exit; the call changes neither
\* master_state nor a saved slot, writes nothing to the master, and ends with
\* active_logs cleared.
C5_ErrorExit ==
    [][\A t \in Threads :
        /\ (Leaves(t, "check") /\ MYSQL_RESPONSE_ERR(buf[t])
              /\ master_state < BLRM_BINLOGDUMP)
           => /\ pc'[t] = "acq_drop" /\ buf'[t] = <<>>
              /\ UNCHANGED <<master_state, saved, written, active_logs, queue>>
        /\ Leaves(t, "acq_drop")
           => /\ pc'[t] = "drop"
              /\ UNCHANGED <<master_state, saved, written, active_logs, queue>>
        /\ Leaves(t, "drop")
           => /\ pc'[t] = "idle" /\ active_logs' = 0
              /\ UNCHANGED <<master_state, saved, written>>]_vars

\* C5 witness: in BLRM_CHKSUM1 the fourth response carried the error marker and
\* its call has returned: three responses were processed, the state is unchanged.
C5_Witness ==
    /\ AllIdle /\ master_state = BLRM_CHKSUM1 /\ nErr = 1 /\ nextId = 4
    /\ lastProc.id = 3 /\ Len(written) = 4 /\ active_logs = 0
    /\ saved.chksum1 = NULLBUF

\* C6: a response with the error marker is never the cause of a state change or
\* of a packet written to the master, whether it was admitted through the gate
\* or taken from the queue.
C6_ErrorNeverAdvances ==
    [][\A t \in Threads :
        (Leaves(t, "step") /\ MYSQL_RESPONSE_ERR(buf[t]))
        => UNCHANGED <<master_state, written>>]_vars

\* C7: once master_state is BLRM_BINLOGDUMP it stays there, nothing more is
\* written to the master, and every buffer admitted through the gate goes on to
\* the switch (and so to blr_handle_binlog_record): none is discarded before.
C7_DumpIngestsAll ==
    [][/\ master_state = BLRM_BINLOGDUMP
          => (master_state' = BLRM_BINLOGDUMP /\ written' = written)
       /\ \A t \in Threads :
            (master_state = BLRM_BINLOGDUMP /\ Leaves(t, "check")) => pc'[t] = "step"]_vars

\* The event a thread is distributing (the head packet of its chain).
DistSeg(t) == buf[t][1]
DistHdr(t) == Pkt(buf[t][1].p)

\* C8: in one distribution of an event E a slave is sent E, as exactly one
\* packet, if and only if its binlog_pos equals E.next_pos - E.event_size; a
\* slave that does not match is sent nothing and keeps its binlog_pos and seqno;
\* every matching slave is served, wherever it is in the list.
C8_FanoutGating ==
    [][\A t \in Threads :
        Leaves(t, "dist")
        => /\ Len(slaves') = Len(slaves) /\ Len(sent') = Len(sent)
           /\ \A i \in 1..Len(slaves) :
                IF slaves[i].binlog_pos = DistHdr(t).next - DistHdr(t).size
                THEN /\ Len(sent'[i].pkts) = Len(sent[i].pkts) + 1
                     /\ SubSeq(sent'[i].pkts, 1, Len(sent[i].pkts)) = sent[i].pkts
                     /\ sent'[i].pkts[Len(sent'[i].pkts)].seg = DistSeg(t)
                ELSE /\ sent'[i] = sent[i]
                     /\ slaves'[i].binlog_pos = slaves[i].binlog_pos
                     /\ slaves'[i].seqno = slaves[i].seqno]_vars

\* C8 witness: the first slave of the list was skipped (it is at 999 and was
\* sent nothing) and the second one, registered after it, was served.
C8_Witness ==
    /\ Len(slaves) = 2 /\ slaves[1].binlog_pos = 999 /\ sent[1].pkts = <<>>
    /\ Len(sent[2].pkts) = 1 /\ slaves[2].binlog_pos = 1050

\* C9: for every event E dispatched to a slave S, rotate events included,
\* S.binlog_pos + E.event_size = E.next_pos before the dispatch and
\* S.binlog_pos = E.next_pos after it.
C9_DispatchPositions ==
    [][\A t \in Threads :
        Leaves(t, "dist")
        => \A i \in 1..Len(slaves) :
             sent'[i] # sent[i]
             => /\ slaves[i].binlog_pos + DistHdr(t).size = DistHdr(t).next
                /\ slaves'[i].binlog_pos = DistHdr(t).next]_vars

\* C9 witness: a slave has been sent an ordinary event and then the rotate event.
C9_Witness ==
    \E i \in 1..Len(slaves) :
        /\ Len(sent[i].pkts) = 2
        /\ Pkt(sent[i].pkts[1].seg.p).etype = QUERY_EVENT
        /\ Pkt(sent[i].pkts[2].seg.p).etype = ROTATE_EVENT
        /\ slaves[i].binlog_pos = Pkt(EventRotate).next

\* C10: the sequence ids of the packets sent to a slave are consecutive modulo
\* 256, starting from the seqno the slave registered with.
C10_SeqnoConsecutive ==
    \A i \in 1..Len(sent) :
        \A j \in 1..Len(sent[i].pkts) :
            /\ sent[i].pkts[j].seq \in 0..255
            /\ sent[i].pkts[j].seq = (IF j = 1 THEN sent[i].seq0 % 256
                                      ELSE (sent[i].pkts[j - 1].seq + 1) % 256)

\* C10 witness: a slave registered with seqno 255 was sent two packets, with the
\* ids 255 and 0.
C10_Witness ==
    \E i \in 1..Len(sent) :
        /\ sent[i].seq0 = 255 /\ Len(sent[i].pkts) = 2
        /\ sent[i].pkts[1].seq = 255 /\ sent[i].pkts[2].seq = 0

\* C11: for every slave, the events it is sent appear in the order in which the
\* master's buffers were delivered (gate order, then place in the chain): a
\* slave is never sent an event delivered earlier than one it was already sent.
C11_FanoutOrder ==
    \A i \in 1..Len(sent) :
        \A j, k \in 1..Len(sent[i].pkts) :
            j < k => Later(sent[i].pkts[k].seg, sent[i].pkts[j].seg)

\* Byte i (1 = least significant) of a 32-bit value.
ByteOf(v, i) ==
    CASE i = 1 -> v.lo % 256
      [] i = 2 -> v.lo \div 256
      [] i = 3 -> v.hi % 256
      [] i = 4 -> v.hi \div 256

\* C14: encode_value writes the bytes of the value least significant first, one
\* for every 8 bits of the width, and extract_field of the same width on those
\* bytes returns the value, for the widths 8, 16, 24 and 32 and every value that
\* fits the width.
C14_CodecRoundTrip ==
    /\ cpc \in {"extract", "done"}
       => /\ Len(cdata) = cbits \div 8
          /\ \A i \in 1..Len(cdata) : cdata[i] = ByteOf(cval, i)
    /\ cpc = "done" => cout = cval

\* C14 witness: a 32-bit value with the top bit set went through both functions.
C14_Witness ==
    /\ cpc = "done" /\ cbits = 32 /\ cval = U32(65535, 32640)
    /\ cdata = <<128, 127, 255, 255>> /\ cout = cval

\* The packets of the master's stream, as bytes.
StreamPackets == [i \in 1..Len(stream) |-> WirePkt(stream[i]).bytes]

\* C12: whatever the split of the stream into segments and deliveries, the
\* messages handed to blr_extract_header are, byte for byte and in order, the
\* packets of the stream, and once the whole stream has been delivered all of
\* them have been handed over and residual is empty.
C12_Reassembly ==
    /\ Len(extracted) <= Len(stream)
    /\ \A i \in 1..Len(extracted) : extracted[i] = StreamPackets[i]
    /\ wire = <<>> => (extracted = StreamPackets /\ residual = <<>>)

\* The messages handed to blr_extract_header so far are, byte for byte, the
\* first packets of the stream.
Intact(ex) ==
    /\ Len(ex) <= Len(stream)
    /\ \A i \in 1..Len(ex) : ex[i] = StreamPackets[i]

\* What rotate handling has to tell the file component for the first n packets
\* of the stream, starting with the file cur: one rotate for every rotate event
\* that names another file than the current one, at the 64-bit position the
\* event carries (each half as 32 bits).
RECURSIVE RotatesDue(_, _, _)
RotatesDue(i, n, cur) ==
    IF i > n THEN <<>>
    ELSE LET p == WirePkt(stream[i])
         IN  IF p.rot /\ p.name # cur
             THEN <<[name |-> p.name, lo |-> ToU32(p.lo), hi |-> ToU32(p.hi)]>>
                  \o RotatesDue(i + 1, n, p.name)
             ELSE RotatesDue(i + 1, n, cur)

\* C13: rotate handling switches files exactly for the rotate events that name
\* another file than the current binlog_name: the file component is told to
\* rotate to that name at the 64-bit position carried by the event, n_rotates
\* counts these rotations, and binlog_name is the name of the last one; a rotate
\* event naming the current file changes neither.
C13_RotateIffNewName ==
    Intact(extracted)
    => /\ rotated = RotatesDue(1, Len(extracted), File1)
       /\ stats.n_rotates = Len(rotated)
       /\ binlog_name = (IF rotated = <<>> THEN File1 ELSE rotated[Len(rotated)].name)

\* C15: binlog_position never decreases while binlog_name is unchanged, and when
\* binlog_name changes binlog_position is the 64-bit position carried by the
\* rotate event that named the new file.
C15_PositionMonotone ==
    [][Intact(extracted')
       => /\ binlog_name' = binlog_name => binlog_position' >= binlog_position
          /\ binlog_name' # binlog_name
             => \E i \in 1..Len(extracted') :
                  /\ WirePkt(stream[i]).rot /\ WirePkt(stream[i]).name = binlog_name'
                  /\ [hi |-> 0, lo |-> binlog_position']
                       = [hi |-> WirePkt(stream[i]).hi, lo |-> WirePkt(stream[i]).lo]]_vars

\* The bytes of the stream that have been delivered, and the offsets at which a
\* packet of the stream starts.
Delivered == Len(WireOf(stream)) - Len(wire)
PacketStart(i) == Len(WireOf(SubSeq(stream, 1, i - 1)))

\* C19: after every return of blr_handle_binlog_record, residual is empty or it
\* holds the first bytes, but not all the bytes, of the packet of the stream
\* that starts where the residual starts.
C19_ResidualStrictPrefix ==
    LET r == Flatten(residual)
    IN  r # <<>>
        => \E i \in 1..Len(stream) :
             /\ PacketStart(i) = Delivered - Len(r)
             /\ Len(r) < Len(StreamPackets[i])
             /\ r = SubSeq(StreamPackets[i], 1, Len(r))

\* The flags of an event (bytes 17 and 18 of its header) have the
\* LOG_EVENT_ARTIFICIAL_F bit.
HasArtificialBit(ev) ==
    Len(ev) >= 19 /\ ((ev[18] + 256 * ev[19]) \div LOG_EVENT_ARTIFICIAL_F) % 2 = 1

\* C20: an event whose flags have the LOG_EVENT_ARTIFICIAL_F bit, whatever the
\* other bits, is neither appended to the local binlog file nor sent to a slave;
\* an artificial rotate event still goes through rotate handling.
C20_ArtificialNotStored ==
    /\ \A i \in 1..Len(fileLog) : ~HasArtificialBit(fileLog[i].ev.data)
    /\ \A i \in 1..Len(sent) : \A j \in 1..Len(sent[i].pkts) :
          ~HasArtificialBit(sent[i].pkts[j].seg.data)
    /\ (Intact(extracted) /\ \E i \in 1..Len(extracted) : stream[i] = "fakerotate7")
       => binlog_name = File7

\* C16: a thread that finds active_logs = 1 at the gate appends its buffer to
\* the tail of the queue and returns: it changes neither master_state, the saved
\* responses, residual nor active_logs and writes nothing to the master or to a
\* slave; and the buffer is then processed by the thread already inside, which
\* does not return while a buffer is queued.
C16_QueuedThenProcessed ==
    [][\A t \in Threads :
        /\ (Leaves(t, "gate") /\ active_logs = 1)
           => /\ pc'[t] = "idle"
              /\ Len(queue') = Len(queue) + Len(buf[t])
              /\ SubSeq(queue', 1, Len(queue)) = queue
              /\ \A k \in 1..Len(buf[t]) : queue'[Len(queue) + k].p = buf[t][k].p
              /\ UNCHANGED <<master_state, saved, residual, active_logs, written, sent>>
        /\ (Inside(t) /\ pc'[t] = "idle") => queue = <<>>]_vars

\* C17: master_state moves only to the immediate successor; a pass of the switch
\* in one of the states TIMESTAMP..REGISTER makes exactly one transition and
\* writes exactly one packet to the master; and a delivered response, a chain of
\* several segments included, is handed to the switch once: no delivery causes
\* two transitions.
C17_OneTransitionPerResponse ==
    [][/\ master_state' \in {master_state, master_state + 1}
       /\ \A t \in Threads :
            (Leaves(t, "step") /\ master_state \in BLRM_TIMESTAMP..BLRM_REGISTER)
            => /\ master_state' = master_state + 1
               /\ Len(written') = Len(written) + 1
               /\ buf[t][1].id # lastProc.id]_vars

\* The slots of C18 and the state in which each is assigned.
HandshakeSlots == {"server_id", "heartbeat", "chksum1", "chksum2", "gtid_mode", "uuid",
                   "setslaveuuid", "setnames"}

SlotState(slot) ==
    CASE slot = "server_id"    -> BLRM_SERVERID
      [] slot = "heartbeat"    -> BLRM_HBPERIOD
      [] slot = "chksum1"      -> BLRM_CHKSUM1
      [] slot = "chksum2"      -> BLRM_CHKSUM2
      [] slot = "gtid_mode"    -> BLRM_GTIDMODE
      [] slot = "uuid"         -> BLRM_MUUID
      [] slot = "setslaveuuid" -> BLRM_SUUID
      [] slot = "setnames"     -> BLRM_LATIN1

NewMessages == SubSeq(extracted', Len(extracted) + 1, Len(extracted'))

\* A whole packet whose OK byte is 0, whose event type is
\* FORMAT_DESCRIPTION_EVENT and whose next_pos is 0, read from its bytes.
FakeFdePacket(m) ==
    /\ Len(m) >= 24
    /\ m[5] = 0
    /\ m[10] = FORMAT_DESCRIPTION_EVENT
    /\ SubSeq(m, 19, 22) = <<0, 0, 0, 0>>
    /\ Val(extract_field(SubSeq(m, 15, 18), 32)) + 5 <= Len(m)

\* The call of this step processed fake FDEs and nothing else.
OnlyFakeFdes ==
    /\ NewMessages # <<>>
    /\ \A k \in 1..Len(NewMessages) : FakeFdePacket(NewMessages[k])

\* The event_size bytes starting 5 bytes into the packet.
FdeBytes(m) == SubSeq(m, 6, 5 + Val(extract_field(SubSeq(m, 15, 18), 32)))

\* What C21 says of the saved slot, the file, the rotation and the slaves.
FakeFdeEffect ==
    /\ saved' = [saved EXCEPT !.fde_event =
                    [data |-> FdeBytes(NewMessages[Len(NewMessages)]), over |-> 0]]
    /\ Len(saved'.fde_event.data)
         = Val(extract_field(SubSeq(NewMessages[Len(NewMessages)], 15, 18), 32))
    /\ UNCHANGED <<fileLog, rotated, binlog_name, binlog_position, slaves, sent>>

\* C21 as stated: a fake FDE adds 1 to n_fakeevents, replaces the saved FDE slot
\* by the event_size bytes starting 5 bytes into the packet, and changes nothing
\* else: no other counter, no write to the file, no rotate, no packet to a
\* slave and no slave's binlog_pos or seqno.
C21_FakeFdeOnlyFakeCounter ==
    [][OnlyFakeFdes =>
        /\ stats' = [stats EXCEPT !.n_fakeevents = @ + Len(NewMessages)]
        /\ FakeFdeEffect]_vars

\* C21 amended: a fake FDE adds 1 to n_binlogs, to the histogram slot of
\* FORMAT_DESCRIPTION_EVENT and to n_fakeevents, replaces the saved FDE slot by
\* the event_size bytes starting 5 bytes into the packet, and changes nothing
\* else: no write to the file, no rotate, no packet to a slave and no slave's
\* binlog_pos or seqno.
C21_FakeFdeFrame ==
    [][OnlyFakeFdes =>
        /\ stats' = [stats EXCEPT !.n_fakeevents = @ + Len(NewMessages),
                                  !.n_binlogs = @ + Len(NewMessages),
                                  !.events[FORMAT_DESCRIPTION_EVENT] = @ + Len(NewMessages)]
        /\ FakeFdeEffect]_vars

\* C21 witness: after an ordinary event was written and sent to the slave, a
\* fake FDE has been processed and saved.
C21_Witness ==
    /\ stream = <<"query", "fakefde">>
    /\ stats.n_fakeevents = 1 /\ stats.n_binlogs = 2
    /\ Len(fileLog) = 1 /\ Len(sent[1].pkts) = 1
    /\ saved.fde_event = [data |-> SubSeq(WirePkt("fakefde").bytes, 6, 74), over |-> 0]

\* The event has been appended to the local file.
Appended(seg) == \E k \in 1..Len(fileLog) : fileLog[k].seg = seg

\* C22: an ordinary event is appended to the local file (the file that is
\* current before any rotation it causes), then rotate handling runs if it is a
\* rotate event, then the fan-out: when the fan-out starts the event is the last
\* record of the file and the file named by a rotate event is the current one;
\* no slave has been sent an event that is not in the local file.
C22_AppendRotateFanout ==
    /\ [](\A i \in 1..Len(sent) : \A j \in 1..Len(sent[i].pkts) :
            Appended(sent[i].pkts[j].seg))
    /\ [][\A t \in Threads :
            /\ (Leaves(t, "ingest") /\ pc'[t] = "acq_dist")
               => fileLog' = Append(fileLog, [file |-> binlog_name, seg |-> buf[t][1]])
            /\ Leaves(t, "dist")
               => /\ fileLog # <<>> /\ fileLog[Len(fileLog)].seg = DistSeg(t)
                  /\ DistHdr(t).etype = ROTATE_EVENT => binlog_name = DistHdr(t).rname]_vars

\* C22 witness: a rotate event was appended to the file that was current, the
\* router rotated to the file it names, and a slave was then sent the event.
C22_Witness ==
    /\ binlog_name = Pkt(EventRotate).rname
    /\ \E k \in 1..Len(fileLog) :
         /\ fileLog[k].file = InitialBinlogName
         /\ fileLog[k].seg.p = EventRotate
         /\ \E i \in 1..Len(sent) : \E j \in 1..Len(sent[i].pkts) :
              sent[i].pkts[j].seg = fileLog[k].seg

\* C23: a call of blr_handle_binlog_record ends with a flush of the local file,
\* whether the loop drained the chain or stopped on an incomplete packet: while
\* no thread is inside the gate every record appended to the file is covered by
\* a flush.
C23_FlushEndsCall == active_logs = 0 => flushed = Len(fileLog)

\* C23 witness: the first call appended an event and stopped on an incomplete
\* packet, which is now the residual; the append is flushed.
C23_Witness ==
    /\ stream = <<"query", "big">>
    /\ budget = MaxCalls - 1
    /\ residual # <<>>
    /\ Len(fileLog) = 1 /\ flushed = 1

\* The payload bytes a builder stores: the offsets after the 4-byte header.
PayloadWritten(l) == Cardinality({o \in l.writes : o >= 4})

\* What C24 says of every packet a builder made, but for the size of the name
\* field: the 24-bit length field equals the number of payload bytes written,
\* the buffer allocated is that length plus 4, every byte written lies inside
\* the buffer, and the length is 1 + the text length for a query, 18 for
\* register-slave and 0x1b for binlog-dump.
BuilderFits(pkt) ==
    LET l == LayoutOf(pkt)
    IN  /\ l.lenfield = PayloadWritten(l)
        /\ l.alloc = l.lenfield + 4
        /\ l.writes \subseteq 0..(l.alloc - 1)
        /\ pkt.cmd = COM_QUERY => l.lenfield = 1 + Len(pkt.text)
        /\ pkt.cmd = COM_REGISTER_SLAVE => l.lenfield = 18
        /\ pkt.cmd = COM_BINLOG_DUMP => l.lenfield = 27

\* The bytes the binlog-dump builder stores for the name.
NameFieldBytes == Cardinality({o \in BinlogDumpLayout.writes : o >= 15})

LockedPlaces == {"gate", "drop", "pop", "dist"}

\* C25: a thread holds the instance lock exactly while it is at a place that
\* reads or writes queue, active_logs or (in the fan-out) the slaves; so it
\* holds no lock when it tries to acquire it and none when it has returned;
\* every change of queue or active_logs, and every change the fan-out makes to
\* a slave or to what a slave is sent, is made by the thread holding the lock.
C25_LockDiscipline ==
    /\ [](\A t \in Threads : (lock = t) <=> (pc[t] \in LockedPlaces))
    /\ [][/\ (queue' # queue \/ active_logs' # active_logs)
             => \E t \in Threads : lock = t /\ pc[t] \in {"gate", "drop", "pop"} /\ pc'[t] # pc[t]
          /\ (\E i \in 1..Len(slaves) : slaves'[i] # slaves[i] \/ sent'[i] # sent[i])
             => \E t \in Threads : lock = t /\ Leaves(t, "dist")
          /\ \A t \in Threads :
               /\ (pc[t] # "idle" /\ pc'[t] = "idle") => lock' # t
               /\ (pc[t] \in {"acq_gate", "acq_drop", "acq_pop", "acq_dist"} /\ pc'[t] # pc[t])
                  => lock = NoThread /\ lock' = t]_vars

\* C25 witness: a thread inside the gate holds the lock for the fan-out, having
\* taken it anew, while another thread waits for it at the gate.
C25_Witness ==
    \E t, u \in Threads :
        /\ pc[t] = "dist" /\ lock = t /\ active_logs = 1 /\ slaves # <<>>
        /\ pc[u] = "acq_gate"

\* C26: the switch of the state machine is never run on a response while
\* master_state is BLRM_AUTHENTICATED: the answer to the first probe is
\* processed in BLRM_TIMESTAMP.
C26_NoStepInAuthenticated ==
    [][\A t \in Threads :
        Leaves(t, "step") => master_state # BLRM_AUTHENTICATED]_vars

====
